---------------------------- MODULE Spec2Model ----------------------------
(***************************************************************************)
(* A model of higlass-schema: the viewconf data model of schema.py and the *)
(* schema post-processors of utils.py.                                      *)
(*                                                                         *)
(* schema.py is written against the pydantic 1.x interface                 *)
(* (pydantic.generics.GenericModel, Extra, root_validator(pre=True),       *)
(* __root__ models, __fields__, update_forward_refs), so a field           *)
(* declaration is read with the semantics pydantic 1.x gives it: lax       *)
(* coercing validators, unions tried left to right, defaults not           *)
(* validated.  Every class of schema.py is a table (its fields, their      *)
(* declared types, its Config.extra) and one interpreter, Validate, gives  *)
(* the tables their meaning.                                               *)
(*                                                                         *)
(* JSON numbers are modelled by integers; a float with a fractional part   *)
(* is outside the model.                                                   *)
(***************************************************************************)
EXTENDS Integers, Sequences, FiniteSets, TLC

VARIABLES
    op,     \* the operation whose outcome is held: "idle" before any call
    arg,    \* the input handed to that operation
    ret     \* what the operation returned

vars == <<op, arg, ret>>

(***************************************************************************)
(* JSON / Python values, tagged by kind.                                   *)
(***************************************************************************)
Absent == [t |-> "absent"]
Null == [t |-> "null"]
Bool(b) == [t |-> "bool", b |-> b]
Num(n) == [t |-> "num", n |-> n]
Str(s) == [t |-> "str", s |-> s]
List(q) == [t |-> "list", items |-> q]
Obj(f) == [t |-> "obj", f |-> f]
ModelVal(c, f) == [t |-> "model", cls |-> c, f |-> f]

Get(f, k) == IF k \in DOMAIN f THEN f[k] ELSE Absent

EmptyMap == [k \in {} |-> Null]

Ok(v) == [ok |-> TRUE, val |-> v]
Err == [ok |-> FALSE, val |-> Null]

(***************************************************************************)
(* Python's int(s) / float(s) on a string: defined for decimal numerals.   *)
(* MaxNumeral bounds the numerals the model knows.                         *)
(***************************************************************************)
MaxNumeral == 12

IsNumeral(s) == \E n \in 0..MaxNumeral : ToString(n) = s

NumeralValue(s) == CHOOSE n \in 0..MaxNumeral : ToString(n) = s

\* str.lower() on the strings the model uses
Lower(s) ==
    CASE s = "True" -> "true"
      [] s = "TRUE" -> "true"
      [] s = "False" -> "false"
      [] s = "ON" -> "on"
      [] OTHER -> s

BOOL_TRUE == {"1", "on", "t", "true", "y", "yes"}
BOOL_FALSE == {"0", "off", "f", "false", "n", "no"}

(***************************************************************************)
(* The scalar validators pydantic runs for a declared str / int / float /  *)
(* bool / dict / list.  None never reaches them (see Validate).            *)
(***************************************************************************)
str_validator(v) ==
    CASE v.t = "str" -> Ok(v)
      [] v.t = "num" -> Ok(Str(ToString(v.n)))
      [] v.t = "bool" -> Ok(Str(IF v.b THEN "True" ELSE "False"))
      [] OTHER -> Err

int_validator(v) ==
    CASE v.t = "num" -> Ok(v)
      [] v.t = "bool" -> Ok(Num(IF v.b THEN 1 ELSE 0))
      [] v.t = "str" -> IF IsNumeral(v.s) THEN Ok(Num(NumeralValue(v.s))) ELSE Err
      [] OTHER -> Err

float_validator(v) == int_validator(v)

bool_validator(v) ==
    CASE v.t = "bool" -> Ok(v)
      [] v.t = "num" -> IF v.n = 1 THEN Ok(Bool(TRUE))
                        ELSE IF v.n = 0 THEN Ok(Bool(FALSE)) ELSE Err
      [] v.t = "str" -> IF Lower(v.s) \in BOOL_TRUE THEN Ok(Bool(TRUE))
                        ELSE IF Lower(v.s) \in BOOL_FALSE THEN Ok(Bool(FALSE))
                        ELSE Err
      [] OTHER -> Err

\* dict(v) succeeds on a list of [key, value] pairs (the empty list included)
\* and on the empty string
IsPairs(q) ==
    \A i \in 1..Len(q) :
        /\ q[i].t = "list"
        /\ Len(q[i].items) = 2
        /\ q[i].items[1].t = "str"

FromPairs(q) ==
    [k \in {q[i].items[1].s : i \in 1..Len(q)} |->
        q[CHOOSE i \in 1..Len(q) :
            /\ q[i].items[1].s = k
            /\ \A j \in (i + 1)..Len(q) : q[j].items[1].s # k].items[2]]

dict_validator(v) ==
    CASE v.t = "obj" -> Ok(Obj(v.f))
      [] v.t = "list" -> IF IsPairs(v.items) THEN Ok(Obj(FromPairs(v.items))) ELSE Err
      [] v.t = "str" -> IF v.s = "" THEN Ok(Obj(EmptyMap)) ELSE Err
      [] OTHER -> Err

list_validator(v) == IF v.t = "list" THEN Ok(v) ELSE Err

(***************************************************************************)
(* Declared types.                                                         *)
(***************************************************************************)
TStr == [k |-> "str"]
TInt == [k |-> "int"]
TFloat == [k |-> "float"]
TBool == [k |-> "bool"]
TAny == [k |-> "any"]
TNone == [k |-> "none"]
Opt(ty) == [k |-> "opt", of |-> ty]
ListOf(ty) == [k |-> "list", of |-> ty]
DictOf(ty) == [k |-> "dict", of |-> ty]
TupleOf(tys) == [k |-> "tuple", of |-> tys]
UnionOf(tys) == [k |-> "union", of |-> tys]
Literal(vals) == [k |-> "literal", vals |-> vals]
Model(name) == [k |-> "model", name |-> name]
TypedDictOf(name) == [k |-> "typeddict", name |-> name]
Alias(name) == [k |-> "alias", name |-> name]

\* a field: required, or with the default the class body gives it
Required(ty) == [ty |-> ty, required |-> TRUE, default |-> Null]
Default(ty, d) == [ty |-> ty, required |-> FALSE, default |-> d]
Optional(ty) == Default(Opt(ty), Null)


(***************************************************************************)
(* General value types.                                                    *)
(***************************************************************************)
Domain == TupleOf(<<TFloat, TFloat>>)

\* Config.extra of a class that sets none: pydantic's default
ExtraDefault == "ignore"

OverlayOptions ==
    [extra |-> ExtraDefault,
     fields |->
        ("extent" :> Optional(ListOf(ListOf(TInt))))
        @@ ("minWidth" :> Optional(TFloat))
        @@ ("fill" :> Optional(TStr))
        @@ ("fillOpacity" :> Optional(TFloat))
        @@ ("stroke" :> Optional(TStr))
        @@ ("strokeOpacity" :> Optional(TFloat))
        @@ ("strokeWidth" :> Optional(TFloat))
        @@ ("strokePos" :> Optional(UnionOf(<<TStr, ListOf(TStr)>>)))
        @@ ("outline" :> Optional(TStr))
        @@ ("outlineOpacity" :> Optional(TFloat))
        @@ ("outlineWidth" :> Optional(TFloat))
        @@ ("outlinePos" :> Optional(UnionOf(<<TStr, ListOf(TStr)>>)))]

Overlay ==
    [extra |-> ExtraDefault,
     fields |->
        ("type" :> Optional(TStr))
        @@ ("uid" :> Optional(TStr))
        @@ ("chromInfoPath" :> Optional(TStr))
        @@ ("includes" :> Optional(ListOf(TStr)))
        @@ ("options" :> Optional(Model("OverlayOptions")))]

(***************************************************************************)
(* Locks.                                                                  *)
(***************************************************************************)
LockEntry == TupleOf(<<TFloat, TFloat, TFloat>>)

Lock ==
    [extra |-> "allow",
     fields |-> ("uid" :> Optional(TStr))]

ValueScaleLockEntry ==
    [extra |-> ExtraDefault,
     fields |-> ("view" :> Required(TStr)) @@ ("track" :> Required(TStr))]

ValueScaleLock ==
    [extra |-> "allow",
     fields |->
        ("uid" :> Optional(TStr))
        @@ ("ignoreOffScreenValues" :> Optional(TBool))]

AxisSpecificLock ==
    [extra |-> ExtraDefault,
     fields |->
        ("axis" :> Required(Literal({"x", "y"})))
        @@ ("lock" :> Required(TStr))]

AxisSpecificLocks ==
    [extra |-> ExtraDefault,
     fields |->
        ("x" :> Optional(Model("AxisSpecificLock")))
        @@ ("y" :> Optional(Model("AxisSpecificLock")))]

LocationLocks ==
    [extra |-> ExtraDefault,
     fields |->
        ("locksByViewUid" :>
            Default(DictOf(UnionOf(<<TStr, Model("AxisSpecificLocks")>>)), Obj(EmptyMap)))
        @@ ("locksDict" :> Default(DictOf(Model("Lock")), Obj(EmptyMap)))]

ZoomLocks ==
    [extra |-> "forbid",
     fields |->
        ("locksByViewUid" :> Default(DictOf(TStr), Obj(EmptyMap)))
        @@ ("locksDict" :> Default(DictOf(Model("Lock")), Obj(EmptyMap)))]

ValueScaleLocks ==
    [extra |-> "forbid",
     fields |->
        ("locksByViewUid" :> Default(DictOf(TStr), Obj(EmptyMap)))
        @@ ("locksDict" :> Default(DictOf(Model("ValueScaleLock")), Obj(EmptyMap)))]

(***************************************************************************)
(* Tracks.                                                                 *)
(***************************************************************************)
TrackOptions == DictOf(TAny)
TilesetInfo == DictOf(TAny)
Tile == DictOf(TAny)

Data ==
    [extra |-> ExtraDefault,
     fields |->
        ("type" :> Optional(TStr))
        @@ ("url" :> Optional(TStr))
        @@ ("server" :> Optional(TStr))
        @@ ("filetype" :> Optional(TStr))
        @@ ("children" :> Optional(ListOf(TAny)))
        @@ ("tilesetInfo" :> Optional(TilesetInfo))
        @@ ("tiles" :> Optional(Tile))]

\* the fields of BaseTrack[TrackTypeT] for a given TrackTypeT
BaseTrackFields(TrackTypeT) ==
    ("type" :> Required(TrackTypeT))
    @@ ("uid" :> Optional(TStr))
    @@ ("width" :> Optional(TInt))
    @@ ("height" :> Optional(TInt))
    @@ ("options" :> Optional(TrackOptions))

\* BaseTrack with Config.extra = Extra.forbid
BaseTrackForbid ==
    [extra |-> "forbid",
     fields |-> BaseTrackFields(TStr)]

\* the bare BaseTrack of the Track union: TrackTypeT is read as its bound, str
BaseTrack ==
    [extra |-> "allow",
     fields |-> BaseTrackFields(TStr)]

Tileset ==
    [extra |-> ExtraDefault,
     fields |->
        ("tilesetUid" :> Optional(TStr))
        @@ ("server" :> Optional(TStr))]

ViewportProjectionTrackType ==
    {"viewport-projection-center",
     "viewport-projection-vertical",
     "viewport-projection-horizontal"}

EnumTrackType ==
    UnionOf(<<
        Literal(ViewportProjectionTrackType),
        Literal({"multivec", "1d-heatmap", "line", "point", "bar", "divergent-bar",
            "stacked-interval", "gene-annotations", "linear-2d-rectangle-domains",
            "chromosome-labels", "linear-heatmap", "1d-value-interval",
            "2d-annotations", "2d-chromosome-annotations", "2d-chromosome-grid",
            "2d-chromosome-labels", "2d-rectangle-domains", "2d-tiles",
            "arrowhead-domains", "bedlike", "cross-rule", "dummy",
            "horizontal-1d-annotations", "horizontal-1d-heatmap",
            "horizontal-1d-tiles", "horizontal-1d-value-interval",
            "horizontal-2d-rectangle-domains", "horizontal-bar",
            "horizontal-chromosome-grid", "horizontal-chromosome-labels",
            "horizontal-divergent-bar", "horizontal-gene-annotations",
            "horizontal-heatmap", "horizontal-line", "horizontal-multivec",
            "horizontal-point", "horizontal-rule", "horizontal-vector-heatmap",
            "image-tiles", "left-axis", "left-stacked-interval", "mapbox-tiles",
            "osm-2d-tile-ids", "osm-tiles", "raster-tiles", "simple-svg",
            "square-markers", "top-axis", "top-stacked-interval",
            "vertical-1d-annotations", "vertical-1d-heatmap", "vertical-1d-tiles",
            "vertical-1d-value-interval", "vertical-2d-rectangle-domains",
            "vertical-bar", "vertical-bedlike", "vertical-chromosome-grid",
            "vertical-chromosome-labels", "vertical-gene-annotations",
            "vertical-heatmap", "vertical-line", "vertical-multivec",
            "vertical-point", "vertical-rule", "vertical-vector-heatmap"})
    >>)

EnumTrack ==
    [extra |-> "ignore",
     fields |->
        ("data" :> Optional(Model("Data")))
        @@ ("chromInfoPath" :> Optional(TStr))
        @@ ("fromViewUid" :> Optional(TStr))
        @@ ("x" :> Optional(TFloat))
        @@ ("y" :> Optional(TFloat))
        @@ BaseTrackFields(EnumTrackType)
        @@ Tileset.fields]

HeatmapTrack ==
    [extra |-> "ignore",
     fields |->
        ("data" :> Optional(Model("Data")))
        @@ ("position" :> Optional(TStr))
        @@ ("transforms" :> Optional(ListOf(TAny)))
        @@ BaseTrackFields(Literal({"heatmap"}))
        @@ Tileset.fields]

IndependentViewportProjectionTrack ==
    [extra |-> "ignore",
     fields |->
        ("fromViewUid" :> Default(TNone, Null))
        @@ ("projectionXDomain" :> Optional(Domain))
        @@ ("projectionYDomain" :> Optional(Domain))
        @@ ("transforms" :> Optional(ListOf(TAny)))
        @@ ("x" :> Optional(TFloat))
        @@ ("y" :> Optional(TFloat))
        @@ BaseTrackFields(Literal(ViewportProjectionTrackType))]

CombinedTrack ==
    [extra |-> "ignore",
     fields |->
        ("contents" :> Required(ListOf(Alias("Track"))))
        @@ ("position" :> Optional(TStr))
        @@ BaseTrackFields(Literal({"combined"}))]

\* the union with its catch-all listed first
TrackBaseFirst ==
    <<"BaseTrack",
      "EnumTrack",
      "CombinedTrack",
      "HeatmapTrack",
      "IndependentViewportProjectionTrack">>

\* the members of the Track union, in the order the union lists them
Track ==
    <<"EnumTrack",
      "CombinedTrack",
      "HeatmapTrack",
      "IndependentViewportProjectionTrack",
      "BaseTrack">>

(***************************************************************************)
(* View.                                                                   *)
(***************************************************************************)
\* Tracks[TrackT] with TrackT the Track union (its bound)
Tracks ==
    [extra |-> "ignore",
     fields |->
        ("left" :> Optional(ListOf(Alias("Track"))))
        @@ ("right" :> Optional(ListOf(Alias("Track"))))
        @@ ("top" :> Optional(ListOf(Alias("Track"))))
        @@ ("bottom" :> Optional(ListOf(Alias("Track"))))
        @@ ("center" :> Optional(ListOf(Alias("Track"))))
        @@ ("whole" :> Optional(ListOf(Alias("Track"))))
        @@ ("gallery" :> Optional(ListOf(Alias("Track"))))]

Layout ==
    [extra |-> "ignore",
     fields |->
        ("x" :> Default(TInt, Num(0)))
        @@ ("y" :> Default(TInt, Num(0)))
        @@ ("w" :> Default(TInt, Num(12)))
        @@ ("h" :> Default(TInt, Num(12)))
        @@ ("moved" :> Optional(TBool))
        @@ ("static" :> Optional(TBool))]

GenomePositionSearchBox ==
    [extra |-> ExtraDefault,
     fields |->
        ("autocompleteServer" :> Optional(TStr))
        @@ ("autocompleteId" :> Optional(TStr))
        @@ ("chromInfoServer" :> Optional(TStr))
        @@ ("chromInfoId" :> Optional(TStr))
        @@ ("visible" :> Optional(TBool))]

\* the fields of View[TrackT]
ViewFields ==
    ("layout" :> Required(Model("Layout")))
    @@ ("tracks" :> Required(Model("Tracks")))
    @@ ("uid" :> Optional(TStr))
    @@ ("autocompleteSource" :> Optional(TStr))
    @@ ("chromInfoPath" :> Optional(TStr))
    @@ ("genomePositionSearchBox" :> Optional(Model("GenomePositionSearchBox")))
    @@ ("genomePositionSearchBoxVisible" :> Optional(TBool))
    @@ ("initialXDomain" :> Optional(Domain))
    @@ ("initialYDomain" :> Optional(Domain))
    @@ ("overlays" :> Optional(ListOf(Model("Overlay"))))
    @@ ("selectionView" :> Optional(TBool))
    @@ ("zoomFixed" :> Optional(TBool))
    @@ ("zoomLimits" :>
        Default(TupleOf(<<TFloat, Opt(TFloat)>>), List(<<Num(1), Null>>)))

\* View without its Config.extra = Extra.forbid
ViewIgnoreExtra ==
    [extra |-> ExtraDefault,
     fields |-> ViewFields]

View ==
    [extra |-> "forbid",
     fields |-> ViewFields]

(***************************************************************************)
(* Viewconf.                                                               *)
(***************************************************************************)
\* Annotated[ty, Field(min_items=n)]
AnnotatedMinItems(ty, n) == [k |-> "annotated", of |-> ty, min_items |-> n]

Viewconf ==
    [extra |-> "forbid",
     fields |->
        ("editable" :> Default(Opt(TBool), Bool(TRUE)))
        @@ ("viewEditable" :> Default(Opt(TBool), Bool(TRUE)))
        @@ ("tracksEditable" :> Default(Opt(TBool), Bool(TRUE)))
        @@ ("zoomFixed" :> Optional(TBool))
        @@ ("compactLayout" :> Optional(TBool))
        @@ ("exportViewUrl" :> Optional(TStr))
        @@ ("trackSourceServers" :> Optional(ListOf(TStr)))
        @@ ("views" :> Optional(AnnotatedMinItems(ListOf(Model("View")), 1)))
        @@ ("zoomLocks" :> Optional(Model("ZoomLocks")))
        @@ ("locationLocks" :> Optional(Model("LocationLocks")))
        @@ ("valueScaleLocks" :> Optional(Model("ValueScaleLocks")))
        @@ ("chromInfoPath" :> Optional(TStr))]

\* the class a name stands for
ClassOf(name) ==
    CASE name = "OverlayOptions" -> OverlayOptions
      [] name = "Overlay" -> Overlay
      [] name = "Lock" -> Lock
      [] name = "ValueScaleLockEntry" -> ValueScaleLockEntry
      [] name = "ValueScaleLock" -> ValueScaleLock
      [] name = "AxisSpecificLock" -> AxisSpecificLock
      [] name = "AxisSpecificLocks" -> AxisSpecificLocks
      [] name = "LocationLocks" -> LocationLocks
      [] name = "ZoomLocks" -> ZoomLocks
      [] name = "ValueScaleLocks" -> ValueScaleLocks
      [] name = "Data" -> Data
      [] name = "BaseTrack" -> BaseTrack
      [] name = "Tileset" -> Tileset
      [] name = "EnumTrack" -> EnumTrack
      [] name = "HeatmapTrack" -> HeatmapTrack
      [] name = "IndependentViewportProjectionTrack" -> IndependentViewportProjectionTrack
      [] name = "CombinedTrack" -> CombinedTrack
      [] name = "Tracks" -> Tracks
      [] name = "Layout" -> Layout
      [] name = "GenomePositionSearchBox" -> GenomePositionSearchBox
      [] name = "View" -> View
      [] name = "Viewconf" -> Viewconf

(***************************************************************************)
(* Validation.  Validate(ty, v) is what pydantic 1.x does with the value v *)
(* of a field declared ty: Ok(the coerced value) or Err.                   *)
(*                                                                         *)
(*  - None is accepted by an Optional, Any or None field and by no other;  *)
(*  - a Union tries its members left to right and the first that           *)
(*    validates wins;                                                      *)
(*  - a model-typed field takes a dict (or what dict() converts), runs the *)
(*    class's pre root validators, validates every declared field (a       *)
(*    missing one takes its default, unvalidated, or fails if required)    *)
(*    and treats the undeclared keys as Config.extra says;                 *)
(*  - an Annotated nested in an Optional is reduced to its first argument: *)
(*    the Field(...) metadata is read only when Annotated is the outermost *)
(*    type of the field, so a min_items carried by it constrains nothing.  *)
(***************************************************************************)
RECURSIVE Validate(_, _)
RECURSIVE ValidateModel(_, _)
RECURSIVE FirstMatch(_, _, _)

\* _LockEntryModel.parse_obj(v).__root__
LockEntryModel_parse_obj(v) == Validate(LockEntry, v)

\* _ValueScaleLockEntryModel.parse_obj(v).__root__
ValueScaleLockEntryModel_parse_obj(v) == Validate(TypedDictOf("ValueScaleLockEntry"), v)

\* the values validate_locks returns, given the keys it parsed and the
\* result of parsing each: one failure fails it
validate_locks_result(values, parsed, rs) ==
    IF \E k \in parsed : ~rs[k].ok
    THEN Err
    ELSE Ok([k \in DOMAIN values |-> IF k \in parsed THEN rs[k].val ELSE values[k]])

\* validate_locks without its "k not in cls.__fields__" test
Lock_validate_locks_all(values) ==
    validate_locks_result(values, DOMAIN values,
        [k \in DOMAIN values |-> LockEntryModel_parse_obj(values[k])])

\* Lock.validate_locks: every key that is no declared field is parsed as a
\* LockEntry; one failure fails the construction
Lock_validate_locks(values) ==
    validate_locks_result(values, DOMAIN values \ DOMAIN Lock.fields,
        [k \in DOMAIN values \ DOMAIN Lock.fields |->
            LockEntryModel_parse_obj(values[k])])

\* ValueScaleLock.validate_locks
ValueScaleLock_validate_locks(values) ==
    validate_locks_result(values, DOMAIN values \ DOMAIN ValueScaleLock.fields,
        [k \in DOMAIN values \ DOMAIN ValueScaleLock.fields |->
            ValueScaleLockEntryModel_parse_obj(values[k])])

\* the root_validator(pre=True) methods of a class
PreRootValidators(name, values) ==
    CASE name = "Lock" -> Lock_validate_locks(values)
      [] name = "ValueScaleLock" -> ValueScaleLock_validate_locks(values)
      [] OTHER -> Ok(values)

\* the members of a type alias
AliasType(name) ==
    CASE name = "Track" -> UnionOf([i \in 1..Len(Track) |-> Model(Track[i])])

FirstMatch(tys, v, i) ==
    IF i > Len(tys)
    THEN Err
    ELSE LET r == Validate(tys[i], v)
         IN  IF r.ok THEN r ELSE FirstMatch(tys, v, i + 1)

ValidateModel(name, v) ==
    LET C == ClassOf(name)
        d == dict_validator(v)
    IN  IF ~d.ok
        THEN Err
        ELSE LET pre == PreRootValidators(name, d.val.f)
             IN  IF ~pre.ok
                 THEN Err
                 ELSE LET data == pre.val
                          names == DOMAIN C.fields
                          extra == DOMAIN data \ names
                          fr == [n \in names |->
                                    IF n \in DOMAIN data
                                    THEN Validate(C.fields[n].ty, data[n])
                                    ELSE IF C.fields[n].required
                                         THEN Err
                                         ELSE Ok(C.fields[n].default)]
                          kept == IF C.extra = "allow" THEN extra ELSE {}
                      IN  IF \/ \E n \in names : ~fr[n].ok
                             \/ C.extra = "forbid" /\ extra # {}
                          THEN Err
                          ELSE Ok(ModelVal(name,
                                    [n \in names \cup kept |->
                                        IF n \in names THEN fr[n].val ELSE data[n]]))

Validate(ty, v) ==
    IF v.t = "null"
    THEN IF ty.k \in {"opt", "any", "none"} THEN Ok(Null) ELSE Err
    ELSE CASE ty.k = "opt" -> Validate(ty.of, v)
           [] ty.k = "annotated" -> Validate(ty.of, v)
           [] ty.k = "any" -> Ok(v)
           [] ty.k = "none" -> Err
           [] ty.k = "str" -> str_validator(v)
           [] ty.k = "int" -> int_validator(v)
           [] ty.k = "float" -> float_validator(v)
           [] ty.k = "bool" -> bool_validator(v)
           [] ty.k = "literal" ->
                IF v.t = "str" /\ v.s \in ty.vals THEN Ok(v) ELSE Err
           [] ty.k = "list" ->
                IF ~list_validator(v).ok
                THEN Err
                ELSE LET rs == [i \in 1..Len(v.items) |-> Validate(ty.of, v.items[i])]
                     IN  IF \A i \in 1..Len(v.items) : rs[i].ok
                         THEN Ok(List([i \in 1..Len(v.items) |-> rs[i].val]))
                         ELSE Err
           [] ty.k = "tuple" ->
                IF ~list_validator(v).ok \/ Len(v.items) # Len(ty.of)
                THEN Err
                ELSE LET rs == [i \in 1..Len(v.items) |-> Validate(ty.of[i], v.items[i])]
                     IN  IF \A i \in 1..Len(v.items) : rs[i].ok
                         THEN Ok(List([i \in 1..Len(v.items) |-> rs[i].val]))
                         ELSE Err
           [] ty.k = "dict" ->
                LET d == dict_validator(v)
                IN  IF ~d.ok
                    THEN Err
                    ELSE LET rs == [key \in DOMAIN d.val.f |-> Validate(ty.of, d.val.f[key])]
                         IN  IF \A key \in DOMAIN d.val.f : rs[key].ok
                             THEN Ok(Obj([key \in DOMAIN d.val.f |-> rs[key].val]))
                             ELSE Err
           [] ty.k = "union" -> FirstMatch(ty.of, v, 1)
           [] ty.k = "alias" -> Validate(AliasType(ty.name), v)
           [] ty.k = "model" -> ValidateModel(ty.name, v)
           [] ty.k = "typeddict" ->
                LET r == ValidateModel(ty.name, v)
                IN  IF r.ok THEN Ok(Obj(r.val.f)) ELSE Err

\* BaseModel.dict / GenericModel.dict with the default exclude_none=True: a
\* model's None-valued fields are left out, at every depth; the entries of
\* a plain dict or list are kept as they are
RECURSIVE ToDict(_)
ToDict(v) ==
    CASE v.t = "model" ->
            Obj([n \in {m \in DOMAIN v.f : v.f[m].t # "null"} |-> ToDict(v.f[n])])
      [] v.t = "obj" -> Obj([n \in DOMAIN v.f |-> ToDict(v.f[n])])
      [] v.t = "list" -> List([i \in 1..Len(v.items) |-> ToDict(v.items[i])])
      [] OTHER -> v

\* Model.parse_obj(doc): "ValidationError", or the model
parse_obj(name, doc) ==
    LET r == ValidateModel(name, doc)
    IN  IF r.ok THEN r.val ELSE [t |-> "ValidationError"]

(***************************************************************************)
(* Config.validate_assignment = True: self.name = value goes through       *)
(* pydantic's validating __setattr__.  A name that is no field is refused  *)
(* unless the class allows extras; the pre root validators run on          *)
(* {**self.__dict__, name: value}; a declared field's value is validated   *)
(* as its type; on success __dict__ is replaced by the new values, on a    *)
(* failure the exception is raised before __dict__ is touched.             *)
(***************************************************************************)
\* the part of __setattr__ under "known_field = self.__fields__.get(name)":
\* a declared field's value is validated as its type
known_field_validate(C, name, value) ==
    IF name \in DOMAIN C.fields
    THEN Validate(C.fields[name].ty, value)
    ELSE Ok(value)

\* what an assignment leaves, given the class, the pre root validators'
\* result and the field validation's result: the exception raised, the
\* instance before and the instance after
setattr_outcome(self, name, C, pre, r) ==
    [t |-> "setattr",
     before |-> self,
     raised |-> IF C.extra # "allow" /\ name \notin DOMAIN C.fields
                THEN "ValueError"
                ELSE IF ~pre.ok \/ ~r.ok THEN "ValidationError" ELSE "none",
     lock |-> IF \/ C.extra # "allow" /\ name \notin DOMAIN C.fields
                 \/ ~pre.ok
                 \/ ~r.ok
              THEN self
              ELSE ModelVal(self.cls,
                       IF name \in DOMAIN C.fields
                       THEN (name :> r.val) @@ pre.val
                       ELSE pre.val)]

\* __setattr__ without its loop over __pre_root_validators__: a value under
\* a non-field name is stored as it is given
BaseModel_setattr_fields_only(self, name, value) ==
    CHOOSE outcome \in
        {setattr_outcome(self, name, C, Ok((name :> value) @@ self.f), r) :
            C \in {ClassOf(self.cls)},
            r \in {known_field_validate(ClassOf(self.cls), name, value)}} : TRUE

BaseModel_setattr(self, name, value) ==
    CHOOSE outcome \in
        {setattr_outcome(self, name, C, pre, r) :
            C \in {ClassOf(self.cls)},
            pre \in {PreRootValidators(self.cls, (name :> value) @@ self.f)},
            r \in {known_field_validate(ClassOf(self.cls), name, value)}} : TRUE

(***************************************************************************)
(* Lock.__iter__ / ValueScaleLock.__iter__: the (key, value) pairs of the  *)
(* instance's __dict__ whose key is no declared field.                     *)
(***************************************************************************)
\* __iter__ without its "key not in self.__fields__" test
Lock_iter_all(self) == {<<key, self.f[key]>> : key \in DOMAIN self.f}


Lock_iter(self) ==
    {<<key, self.f[key]>> : key \in {n \in DOMAIN self.f : n \notin DOMAIN Lock.fields}}

ValueScaleLock_iter(self) ==
    {<<key, self.f[key]>> :
        key \in {n \in DOMAIN self.f : n \notin DOMAIN ValueScaleLock.fields}}

(***************************************************************************)
(* Schema post-processing.  A schema fragment is a mapping from keys to    *)
(* values; an ordered mapping (a Python dict whose key order matters) is a *)
(* sequence of <<key, value>> pairs with distinct keys.                    *)
(***************************************************************************)
RECURSIVE Concat(_)
Concat(qs) == IF qs = <<>> THEN <<>> ELSE Head(qs) \o Concat(Tail(qs))

\* simplify_enum_schema keeping only the first branch of a union
simplify_enum_schema_first_branch(schema) ==
    IF "anyOf" \in DOMAIN schema
    THEN IF \E i \in 1..Len(schema["anyOf"]) : "enum" \notin DOMAIN schema["anyOf"][i]
         THEN [raises |-> "AssertionError"]
         ELSE [enum |-> IF schema["anyOf"] = <<>> THEN <<>> ELSE schema["anyOf"][1]["enum"]]
    ELSE IF "enum" \notin DOMAIN schema
         THEN [raises |-> "KeyError"]
         ELSE IF Len(schema["enum"]) = 1
              THEN [const |-> schema["enum"][1]]
              ELSE [enum |-> schema["enum"]]

\* utils.simplify_enum_schema: a fragment, or the exception it raises
simplify_enum_schema(schema) ==
    IF "anyOf" \in DOMAIN schema
    THEN IF \E i \in 1..Len(schema["anyOf"]) : "enum" \notin DOMAIN schema["anyOf"][i]
         THEN [raises |-> "AssertionError"]
         ELSE [enum |-> Concat([i \in 1..Len(schema["anyOf"]) |-> schema["anyOf"][i]["enum"]])]
    ELSE IF "enum" \notin DOMAIN schema
         THEN [raises |-> "KeyError"]
         ELSE IF Len(schema["enum"]) = 1
              THEN [const |-> schema["enum"][1]]
              ELSE [enum |-> schema["enum"]]

\* exclude_properties_titles: drops the "title" of every property
exclude_properties_titles(schema) ==
    [schema EXCEPT !["properties"] =
        [n \in DOMAIN schema["properties"] |->
            [key \in DOMAIN schema["properties"][n] \ {"title"} |->
                schema["properties"][n][key]]]]

\* AxisSpecificLock.Config.schema_extra
AxisSpecificLock_schema_extra(schema) ==
    LET s1 == exclude_properties_titles(schema)
    IN  [s1 EXCEPT !["properties"]["axis"] = simplify_enum_schema(s1["properties"]["axis"])]

\* OrderedDict(pairs): a key keeps the place of its first pair and takes the
\* value of its last
RECURSIVE OrderedDict(_)
OrderedDict(pairs) ==
    IF pairs = <<>>
    THEN <<>>
    ELSE LET init == OrderedDict(SubSeq(pairs, 1, Len(pairs) - 1))
             last == pairs[Len(pairs)]
         IN  IF \E i \in 1..Len(init) : init[i][1] = last[1]
             THEN [i \in 1..Len(init) |-> IF init[i][1] = last[1] THEN last ELSE init[i]]
             ELSE Append(init, last)

\* schema() with the metadata appended after the derived keys
schema_metadata_last(root) ==
    LET defs == CHOOSE i \in 1..Len(root) : root[i][1] = "definitions"
        popped == [n \in DOMAIN root[defs][2] |->
                    [key \in DOMAIN root[defs][2][n] \ {"title"} |-> root[defs][2][n][key]]]
        root1 == [root EXCEPT ![defs] = <<"definitions", popped>>]
    IN  OrderedDict(root1 \o <<<<"$schema", "http://json-schema.org/draft-07/schema#">>,
                               <<"$id", "https://higlass.io/#viewconf">>>>)

\* schema(), given root = Viewconf.schema()
schema(root) ==
    LET defs == CHOOSE i \in 1..Len(root) : root[i][1] = "definitions"
        popped == [n \in DOMAIN root[defs][2] |->
                    [key \in DOMAIN root[defs][2][n] \ {"title"} |-> root[defs][2][n][key]]]
        root1 == [root EXCEPT ![defs] = <<"definitions", popped>>]
    IN  OrderedDict(<<<<"$schema", "http://json-schema.org/draft-07/schema#">>,
                      <<"$id", "https://higlass.io/#viewconf">>>> \o root1)

(***************************************************************************)
(* The documents the operations are called with.                           *)
(***************************************************************************)
\* the subsets of K of at most n elements
RECURSIVE KeySets(_, _)
KeySets(K, n) ==
    IF n = 0
    THEN {{}}
    ELSE LET P == KeySets(K, n - 1)
         IN  P \cup {S \cup {key} : S \in P, key \in K}

\* the mappings that give every key of S one of its values V[key]
RECURSIVE DocsOf(_, _)
DocsOf(S, V) ==
    IF S = {}
    THEN {EmptyMap}
    ELSE LET key == CHOOSE n \in S : TRUE
         IN  {(key :> v) @@ f : v \in V[key], f \in DocsOf(S \ {key}, V)}

HeatmapDoc == Obj("type" :> Str("heatmap"))
EmptyCombinedDoc == Obj(("type" :> Str("combined")) @@ ("contents" :> List(<<>>)))
Triple == List(<<Num(1), Num(2), Num(3)>>)
Pair == List(<<Num(1), Num(2)>>)
ViewTrack == Obj(("view" :> Str("v")) @@ ("track" :> Str("t")))

\* a track document holds at most MaxTrackKeys keys besides "type"
MaxTrackKeys == 2

TrackKeys ==
    {"uid", "width", "height", "options", "tilesetUid", "data", "fromViewUid",
     "x", "position", "transforms", "projectionXDomain", "contents", "foo"}

TrackValues ==
    [key \in TrackKeys \cup {"type"} |->
    CASE key = "type" ->
            {Str("combined"), Str("heatmap"), Str("viewport-projection-center"),
             Str("viewport-projection-vertical"),
             Str("line"), Str("some-unknown-kind"), Num(5), Null, List(<<>>)}
      [] key = "uid" -> {Str("u"), List(<<>>)}
      [] key = "width" -> {Num(3), Str("12"), Str("wide")}
      [] key = "height" -> {Num(3), Str("tall")}
      [] key = "options" -> {Obj("color" :> Null), Num(5)}
      [] key = "tilesetUid" -> {Str("t"), List(<<>>)}
      [] key = "data" -> {Obj("url" :> Str("u")), Num(5)}
      [] key = "fromViewUid" -> {Str("abc"), Null, List(<<>>)}
      [] key = "x" -> {Num(1), Str("left")}
      [] key = "position" -> {Str("top"), List(<<>>)}
      [] key = "transforms" -> {List(<<>>), Num(5)}
      [] key = "projectionXDomain" -> {Pair, Triple}
      [] key = "contents" ->
            {List(<<>>), List(<<HeatmapDoc>>), List(<<EmptyCombinedDoc>>),
             List(<<Obj(EmptyMap)>>), Str("x")}
      [] key = "foo" -> {Num(1), Null}]

TrackDocs ==
    {Obj(f) : f \in UNION {DocsOf(S \cup T, TrackValues) :
                S \in KeySets(TrackKeys, MaxTrackKeys), T \in {{}, {"type"}}}}

\* a lock document holds uid, ignoreOffScreenValues and at most MaxViews
\* view-id keys
MaxViews == 2

ViewIds == {"view" \o ToString(i) : i \in 1..MaxViews}

LockKeys == {"uid", "ignoreOffScreenValues"} \cup ViewIds

LockValues ==
    [key \in LockKeys |->
    CASE key = "uid" -> {Str("a"), Null, Triple, ViewTrack}
      [] key = "ignoreOffScreenValues" -> {Bool(TRUE), Triple, ViewTrack}
      [] OTHER ->
            {Triple, Pair, List(<<Str("a"), Num(2), Num(3)>>),
             List(<<Str("1"), Num(2), Num(3)>>), Str("a"), Null,
             ViewTrack, Obj("view" :> Str("v")),
             Obj(("view" :> Str("v")) @@ ("track" :> List(<<>>)))}]

LockDocs == {Obj(f) : f \in UNION {DocsOf(S, LockValues) : S \in SUBSET LockKeys}}

LockDoc == Obj(("uid" :> Str("a")) @@ ("view1" :> Triple))
ValueScaleLockDoc == Obj("view1" :> ViewTrack)

TracksValues ==
    [key \in {"top", "center", "foo"} |->
    CASE key = "top" -> {List(<<>>), List(<<HeatmapDoc>>), List(<<Obj(EmptyMap)>>), Null}
      [] key = "center" -> {List(<<HeatmapDoc, EmptyCombinedDoc>>), Str("x")}
      [] key = "foo" -> {Num(1), Null}]

TracksDocs ==
    {Obj(f) : f \in UNION {DocsOf(S, TracksValues) : S \in SUBSET {"top", "center", "foo"}}}

LocksValues ==
    [key \in {"locksByViewUid", "locksDict", "foo"} |->
    CASE key = "locksByViewUid" -> {Obj("v" :> Str("l")), Obj("v" :> List(<<>>))}
      [] key = "locksDict" -> {Obj(EmptyMap), Obj("l" :> LockDoc), Obj("l" :> ValueScaleLockDoc)}
      [] key = "foo" -> {Num(1), Null}]

LocksDocs ==
    {Obj(f) : f \in UNION {DocsOf(S, LocksValues) :
                S \in SUBSET {"locksByViewUid", "locksDict", "foo"}}}

ViewValues ==
    [key \in {"layout", "tracks", "uid", "zoomLimits", "foo", "bar"} |->
    CASE key = "layout" -> {Obj(EmptyMap), Obj(("x" :> Num(1)) @@ ("foo" :> Num(1))), Str("x")}
      [] key = "tracks" ->
            {Obj(EmptyMap),
             Obj(("top" :> List(<<Obj("type" :> Str("top-axis"))>>))
                 @@ ("center" :> List(<<HeatmapDoc>>))),
             Obj("top" :> List(<<Obj(EmptyMap)>>))}
      [] key = "uid" -> {Str("v")}
      [] key = "zoomLimits" -> {List(<<Num(1), Null>>), List(<<Num(1)>>)}
      [] key = "foo" -> {Num(1), Null}
      [] key = "bar" -> {Str("b")}]

ViewDocs ==
    {Obj(f) : f \in UNION {DocsOf(S, ViewValues) :
                S \in SUBSET {"layout", "tracks", "uid", "zoomLimits", "foo", "bar"}}}

ValidView ==
    Obj(("layout" :> Obj(EmptyMap))
        @@ ("tracks" :> Obj(("top" :> List(<<Obj("type" :> Str("top-axis"))>>))
                            @@ ("center" :> List(<<HeatmapDoc>>)))))

ViewconfValues ==
    [key \in {"editable", "viewEditable", "tracksEditable", "views",
         "zoomLocks", "valueScaleLocks", "foo"} |->
    CASE key = "editable" -> {Bool(TRUE), Bool(FALSE), Null}
      [] key = "viewEditable" -> {Bool(FALSE), Null}
      [] key = "tracksEditable" -> {Str("off")}
      [] key = "views" ->
            {List(<<>>), List(<<ValidView>>), List(<<ValidView, ValidView>>),
             List(<<Obj(("layout" :> Obj(EmptyMap)) @@ ("tracks" :> Obj(EmptyMap))
                        @@ ("foo" :> Num(1)))>>),
             Null}
      [] key = "zoomLocks" -> {Obj("locksDict" :> Obj("l" :> LockDoc)), Obj("foo" :> Num(1))}
      [] key = "valueScaleLocks" -> {Obj("locksDict" :> Obj("l" :> ValueScaleLockDoc))}
      [] key = "foo" -> {Num(1), Null}]

ViewconfDocs ==
    {Obj(f) : f \in UNION {DocsOf(S, ViewconfValues) :
                S \in SUBSET {"editable", "viewEditable", "tracksEditable", "views",
                              "zoomLocks", "valueScaleLocks", "foo"}}}

\* the entry points: the Track union and the classes parsed on their own
Entries == {"Track", "Lock", "ValueScaleLock", "Tracks", "ZoomLocks", "ValueScaleLocks",
            "View", "Viewconf"}

EntryType(entry) == IF entry = "Track" THEN Alias("Track") ELSE Model(entry)

EntryDocs(entry) ==
    CASE entry = "Track" -> TrackDocs
      [] entry \in {"Lock", "ValueScaleLock"} -> LockDocs
      [] entry = "Tracks" -> TracksDocs
      [] entry \in {"ZoomLocks", "ValueScaleLocks"} -> LocksDocs
      [] entry = "View" -> ViewDocs
      [] entry = "Viewconf" -> ViewconfDocs

\* parsing doc at an entry point: the model, or the ValidationError raised
ValidationError == [t |-> "ValidationError"]

Parsed(entry, doc) ==
    LET r == Validate(EntryType(entry), doc)
    IN  IF r.ok THEN r.val ELSE ValidationError

(***************************************************************************)
(* Schema fragments handed to simplify_enum_schema, and derived roots      *)
(* handed to schema().                                                     *)
(***************************************************************************)
MaxEnum == 2
MaxBranches == 2

Literals == {"x", "y"}

SeqsUpTo(S, n) == UNION {[1..m -> S] : m \in 0..n}

Branches ==
    {[enum |-> q] : q \in SeqsUpTo(Literals, MaxEnum)} \cup {[const |-> v] : v \in Literals}

Fragments ==
    {[anyOf |-> bs] : bs \in SeqsUpTo(Branches, MaxBranches)}
    \cup {[anyOf |-> bs, enum |-> <<"x">>] : bs \in SeqsUpTo(Branches, MaxBranches)}
    \cup {[enum |-> q] : q \in SeqsUpTo(Literals, MaxEnum)}
    \cup {[enum |-> q, type |-> "string", title |-> "Axis"] : q \in SeqsUpTo(Literals, MaxEnum)}
    \cup {[type |-> "string"]}

\* the axis property as derived from Literal["x", "y"]: one enum, or a union
\* of single-valued enums
AxisFragments ==
    {[title |-> "Axis", enum |-> <<"x", "y">>, type |-> "string"],
     [enum |-> <<"x", "y">>],
     [title |-> "Axis", anyOf |-> <<[enum |-> <<"x">>], [enum |-> <<"y">>]>>],
     [anyOf |-> <<[enum |-> <<"x", "y">>]>>]}

AxisSchemas ==
    {[title |-> "AxisSpecificLock", type |-> "object",
      properties |-> [axis |-> a, lock |-> l]] :
        a \in AxisFragments, l \in {[title |-> "Lock", type |-> "string"], [type |-> "string"]}}

\* a derived root schema holds "definitions" and at most MaxRootKeys other
\* keys, in any order
MaxRootKeys == 2

RootKeys == {"title", "description", "type", "properties"}

DefinitionSets ==
    {[n \in {"View", "Lock"} |-> d[n]] :
        d \in [{"View", "Lock"} ->
                {[title |-> "T", type |-> "object"], [type |-> "object"],
                 [title |-> "T"]}]}

Roots ==
    {[i \in 1..Len(ks) |->
        IF ks[i] = "definitions" THEN <<"definitions", defs>> ELSE <<ks[i], ks[i] \o "-value">>] :
        ks \in {q \in SeqsUpTo(RootKeys \cup {"definitions"}, MaxRootKeys + 1) :
                    /\ \E i \in 1..Len(q) : q[i] = "definitions"
                    /\ \A i, j \in 1..Len(q) : i # j => q[i] # q[j]},
        defs \in DefinitionSets}

(***************************************************************************)
(* The operations.                                                         *)
(***************************************************************************)
Init == op = "idle" /\ arg = Null /\ ret = Null

\* Model.parse_obj(doc) at an entry point
Parse ==
    /\ op = "idle"
    /\ \E entry \in Entries :
        \E doc \in EntryDocs(entry) :
            /\ op' = entry
            /\ arg' = doc
            /\ ret' = Parsed(entry, doc)

\* for key, val in lock: ...
Iterate ==
    /\ op \in {"Lock", "ValueScaleLock"}
    /\ ret.t = "model"
    /\ op' = op \o ".__iter__"
    /\ arg' = arg
    /\ ret' = [t |-> "iter",
               lock |-> ret,
               items |-> IF op = "Lock" THEN Lock_iter(ret) ELSE ValueScaleLock_iter(ret)]

\* Model.parse_obj(model.dict())
RoundTrip ==
    /\ op \in Entries
    /\ ret.t = "model"
    /\ op' = op \o ".dict"
    /\ arg' = arg
    /\ ret' = [t |-> "roundtrip",
               first |-> ret,
               doc |-> ToDict(ret),
               second |-> Parsed(op, ToDict(ret))]

SimplifyEnumSchema ==
    /\ op = "idle"
    /\ \E fragment \in Fragments \cup AxisFragments :
        /\ op' = "simplify_enum_schema"
        /\ arg' = fragment
        /\ ret' = simplify_enum_schema(fragment)

AxisSchemaExtra ==
    /\ op = "idle"
    /\ \E s \in AxisSchemas :
        /\ op' = "AxisSpecificLock.schema_extra"
        /\ arg' = s
        /\ ret' = AxisSpecificLock_schema_extra(s)

Schema ==
    /\ op = "idle"
    /\ \E root \in Roots :
        /\ op' = "schema"
        /\ arg' = root
        /\ ret' = schema(root)

\* the lock a result holds: the one constructed, or the one assigned to
held(result) == IF result.t = "model" THEN result ELSE result.lock

\* lock.name = value, on a constructed lock or on one already assigned to
SetAttr ==
    /\ \/ op \in {"Lock", "ValueScaleLock"} /\ ret.t = "model"
       \/ op \in {"Lock.__setattr__", "ValueScaleLock.__setattr__"}
    /\ \E self \in {held(ret)} :
        \E name \in LockKeys :
            \E value \in LockValues[name] :
                /\ op' = self.cls \o ".__setattr__"
                /\ arg' = [t |-> "setattr", name |-> name, value |-> value]
                /\ ret' = BaseModel_setattr(self, name, value)

\* the caller drops the result and is free to call again
Reset ==
    /\ op # "idle"
    /\ op' = "idle"
    /\ arg' = Null
    /\ ret' = Null

Next ==
    \/ Parse
    \/ Iterate
    \/ RoundTrip
    \/ SetAttr
    \/ SimplifyEnumSchema
    \/ AxisSchemaExtra
    \/ Schema
    \/ Reset

Spec == Init /\ [][Next]_vars

(***************************************************************************)
(* Properties.                                                             *)
(***************************************************************************)
\* doc without the keys K
Without(doc, K) == Obj([key \in DOMAIN doc.f \ K |-> doc.f[key]])

Kind(doc, key) == Get(doc.f, key).t

\* the variants in the order the specification gives
TrackOrder ==
    <<"EnumTrack", "CombinedTrack", "HeatmapTrack",
      "IndependentViewportProjectionTrack", "BaseTrack">>

AcceptedBy(doc) == {i \in 1..Len(TrackOrder) : ValidateModel(TrackOrder[i], doc).ok}

Earliest(I) == CHOOSE i \in I : \A j \in I : i <= j

\* C1: parsing a document against the Track union returns the earliest
\* variant, in the order EnumTrack, CombinedTrack, HeatmapTrack,
\* IndependentViewportProjectionTrack, BaseTrack, that accepts the document
\* (and fails only when none does); {"type": "combined", "contents": []}
\* yields CombinedTrack, {"type": "heatmap"} HeatmapTrack and
\* {"type": "some-unknown-kind"} BaseTrack.
C1_FirstAcceptingVariant ==
    op = "Track" =>
        /\ (ret = ValidationError) <=> (AcceptedBy(arg) = {})
        /\ AcceptedBy(arg) # {} =>
            /\ ret.t = "model"
            /\ ret.cls = TrackOrder[Earliest(AcceptedBy(arg))]
            /\ ret = ValidateModel(ret.cls, arg).val
        /\ arg = EmptyCombinedDoc => ret.t = "model" /\ ret.cls = "CombinedTrack"
        /\ arg = HeatmapDoc => ret.t = "model" /\ ret.cls = "HeatmapTrack"
        /\ arg = Obj("type" :> Str("some-unknown-kind")) =>
                ret.t = "model" /\ ret.cls = "BaseTrack"

\* a document two variants accept, parsed as the earlier one
C1_Witness ==
    /\ op = "Track"
    /\ arg = EmptyCombinedDoc
    /\ AcceptedBy(arg) = {2, 5}
    /\ ret.t = "model"
    /\ ret.cls = "CombinedTrack"

IsProjectionDoc(doc) ==
    /\ Kind(doc, "type") = "str"
    /\ doc.f["type"].s \in ViewportProjectionTrackType

\* C2: for a track document whose type is a "viewport-projection-*" string
\* the variant is decided by fromViewUid alone: absent or null gives
\* IndependentViewportProjectionTrack, a string gives EnumTrack.
C2_FromViewUidDecides ==
    (op = "Track" /\ IsProjectionDoc(arg) /\ ret.t = "model") =>
        /\ Kind(arg, "fromViewUid") \in {"absent", "null"} =>
                ret.cls = "IndependentViewportProjectionTrack"
        /\ Kind(arg, "fromViewUid") = "str" => ret.cls = "EnumTrack"

\* C3 as claimed: parsing a track document (one that names its type by a
\* string) against the Track union never fails.
C3_NeverFails ==
    (op = "Track" /\ Kind(arg, "type") = "str") => ret.t = "model"

StrLike == {"str", "num", "bool"}

IntLike(v) == v.t \in {"num", "bool"} \/ (v.t = "str" /\ IsNumeral(v.s))

\* what BaseTrack declares: type a str; uid, width, height, options an
\* optional str, int, int, dict
BaseTrackAccepts(doc) ==
    /\ Kind(doc, "type") \in StrLike
    /\ Kind(doc, "uid") \in {"absent", "null"} \cup StrLike
    /\ Kind(doc, "width") \in {"absent", "null"} \/ IntLike(doc.f["width"])
    /\ Kind(doc, "height") \in {"absent", "null"} \/ IntLike(doc.f["height"])
    /\ Kind(doc, "options") \in {"absent", "null", "obj"}

\* C3 (amended): parsing a track document against the Track union fails
\* exactly when BaseTrack's own declared fields reject it (type missing, null
\* or no string; a uid, width, height or options value its declared type
\* cannot take).  A value only a named variant rejects (contents, data,
\* fromViewUid, position, ...) never fails the parse.
C3_FailsOnlyWhereBaseTrackRejects ==
    op = "Track" => ((ret.t = "model") <=> BaseTrackAccepts(arg))

\* a combined document whose contents CombinedTrack rejects comes back as
\* BaseTrack
C3_Witness ==
    /\ op = "Track"
    /\ Kind(arg, "type") = "str"
    /\ arg.f["type"].s = "combined"
    /\ Kind(arg, "contents") = "str"
    /\ ret.t = "model"
    /\ ret.cls = "BaseTrack"

DeclaredNames(cls) ==
    IF cls = "Lock" THEN {"uid"} ELSE {"uid", "ignoreOffScreenValues"}

\* the entry shape of a flavor: three numbers, or a record with strings
\* under "view" and "track"
EntryShape(cls, v) ==
    IF cls = "Lock"
    THEN /\ v.t = "list"
         /\ Len(v.items) = 3
         /\ \A i \in 1..3 : IntLike(v.items[i])
    ELSE /\ v.t = "obj"
         /\ {"view", "track"} \subseteq DOMAIN v.f
         /\ v.f["view"].t \in StrLike
         /\ v.f["track"].t \in StrLike

DeclaredValid(cls, doc) ==
    /\ Kind(doc, "uid") \in {"absent", "null"} \cup StrLike
    /\ cls = "ValueScaleLock" => Kind(doc, "ignoreOffScreenValues") \in {"absent", "null", "bool"}

C5_IterationYieldsDynamicPairs ==
    op \in {"Lock.__iter__", "ValueScaleLock.__iter__"} =>
        LET cls == ret.lock.cls
            dyn == DOMAIN arg.f \ DeclaredNames(cls)
        IN  /\ {p[1] : p \in ret.items} = dyn
            /\ Cardinality(ret.items) = Cardinality(dyn)
            /\ \A p \in ret.items : p[2] = ret.lock.f[p[1]]
            /\ arg = LockDoc =>
                /\ ret.lock.f["uid"] = Str("a")
                /\ ret.items = {<<"view1", Triple>>}

C5_Witness ==
    /\ op = "Lock.__iter__"
    /\ arg = LockDoc
    /\ ret.lock.f["uid"] = Str("a")
    /\ ret.items = {<<"view1", Triple>>}

StrictClasses == {"Viewconf", "View", "ZoomLocks", "ValueScaleLocks"}

\* the keys of doc that the class parsed at the entry point does not declare
\* (for the Track union: that no variant declares)
UnknownKeys(entry, doc) ==
    IF entry = "Track"
    THEN DOMAIN doc.f \ UNION {DOMAIN ClassOf(TrackOrder[i]).fields : i \in 1..Len(TrackOrder)}
    ELSE DOMAIN doc.f \ DOMAIN ClassOf(entry).fields

\* C6: a Viewconf, View, ZoomLocks or ValueScaleLocks document with a
\* top-level key outside the declared fields fails with a ValidationError;
\* for the Tracks container and the track variants an unknown key changes
\* neither whether the document parses nor the class it parses as.
C6_UnknownKeys ==
    /\ (op \in StrictClasses /\ UnknownKeys(op, arg) # {}) => ret = ValidationError
    /\ op \in {"Tracks", "Track"} =>
        LET bare == Parsed(op, Without(arg, UnknownKeys(op, arg)))
        IN  /\ ret.t = bare.t
            /\ ret.t = "model" => ret.cls = bare.cls

\* a View document that fails, and validates once its unknown key is removed
C6_Witness ==
    /\ op = "View"
    /\ UnknownKeys(op, arg) = {"foo"}
    /\ ret = ValidationError
    /\ Parsed("View", Without(arg, {"foo"})).t = "model"

\* C7: views has a minimum length of 1 at parse time: a Viewconf document
\* whose views is the empty list fails with a ValidationError, one whose
\* views is a non-empty list of valid views parses.
C7_MinItemsEnforced ==
    op = "Viewconf" =>
        /\ (Kind(arg, "views") = "list" /\ arg.f["views"].items = <<>>) =>
                ret = ValidationError
        /\ arg = Obj("views" :> List(<<ValidView>>)) => ret.t = "model"

\* C8: for every valid document D, parse(D).dict() holds no null-valued
\* field and parses again to a model equal to parse(D) (equal as pydantic
\* compares models: by their dict()), so that a flag defaulted or set at
\* parse time keeps its value.
C8_RoundTrip ==
    ret.t = "roundtrip" =>
        /\ \A key \in DOMAIN ret.doc.f : ret.doc.f[key].t # "null"
        /\ ret.second.t = "model"
        /\ ToDict(ret.second) = ToDict(ret.first)
        /\ op = "Viewconf.dict" =>
            \A flag \in {"editable", "viewEditable", "tracksEditable"} :
                ret.second.f[flag] = ret.first.f[flag]

\* C9: schema() returns "$schema" then "$id", then every key of the derived
\* root in its original order, each with the value the root holds for it
\* (definitions: with the titles removed and the rest as it was); no entry
\* of definitions carries a "title".
C9_SchemaMetadataFirst ==
    op = "schema" =>
        /\ Len(ret) = Len(arg) + 2
        /\ ret[1] = <<"$schema", "http://json-schema.org/draft-07/schema#">>
        /\ ret[2] = <<"$id", "https://higlass.io/#viewconf">>
        /\ \A i \in 1..Len(arg) :
            /\ ret[i + 2][1] = arg[i][1]
            /\ IF arg[i][1] = "definitions"
               THEN /\ DOMAIN ret[i + 2][2] = DOMAIN arg[i][2]
                    /\ \A n \in DOMAIN arg[i][2] :
                        /\ DOMAIN ret[i + 2][2][n] = DOMAIN arg[i][2][n] \ {"title"}
                        /\ \A key \in DOMAIN ret[i + 2][2][n] :
                                ret[i + 2][2][n][key] = arg[i][2][n][key]
               ELSE ret[i + 2][2] = arg[i][2]

\* a root of three keys, definitions last, one definition titled
C9_Witness ==
    /\ op = "schema"
    /\ Len(arg) = 3
    /\ arg[3][1] = "definitions"
    /\ "title" \in DOMAIN arg[3][2]["View"]
    /\ ret[5][1] = "definitions"
    /\ "title" \notin DOMAIN ret[5][2]["View"]

IsEnumUnion(fragment) ==
    /\ "anyOf" \in DOMAIN fragment
    /\ \A i \in 1..Len(fragment.anyOf) : "enum" \in DOMAIN fragment.anyOf[i]

IsPlainEnum(fragment) ==
    /\ "anyOf" \notin DOMAIN fragment
    /\ "enum" \in DOMAIN fragment

\* the literals of a fragment, branch after branch
RECURSIVE LiteralsOf(_, _)
LiteralsOf(branches, i) ==
    IF i > Len(branches) THEN <<>> ELSE branches[i].enum \o LiteralsOf(branches, i + 1)

\* C10 as claimed: whenever exactly one literal v remains, in a plain enum
\* or in a union of enums, simplify_enum_schema returns {"const": v}.
C10_ConstWheneverOneLiteral ==
    op = "simplify_enum_schema" =>
        /\ (IsPlainEnum(arg) /\ Len(arg.enum) = 1) => ret = [const |-> arg.enum[1]]
        /\ (IsEnumUnion(arg) /\ Len(LiteralsOf(arg.anyOf, 1)) = 1) =>
                ret = [const |-> LiteralsOf(arg.anyOf, 1)[1]]

\* C10 (amended): simplify_enum_schema turns a union (anyOf) of enums into
\* the one fragment {"enum": the branches' values in branch order}, also
\* when the branches hold a single value between them; it returns
\* {"const": v} only for a plain enum of exactly one value v and
\* {"enum": values} for any other plain enum; the result is never a union,
\* and the axis field of AxisSpecificLock is {"enum": ["x", "y"]}.
C10_SimplifyEnumSchema ==
    /\ op = "simplify_enum_schema" =>
        /\ IsEnumUnion(arg) => ret = [enum |-> LiteralsOf(arg.anyOf, 1)]
        /\ IsPlainEnum(arg) =>
                ret = IF Len(arg.enum) = 1
                      THEN [const |-> arg.enum[1]]
                      ELSE [enum |-> arg.enum]
        /\ "anyOf" \notin DOMAIN ret
        /\ arg \in AxisFragments => ret = [enum |-> <<"x", "y">>]
    /\ op = "AxisSpecificLock.schema_extra" =>
        /\ ret.properties.axis = [enum |-> <<"x", "y">>]
        /\ "title" \notin DOMAIN ret.properties.lock

\* a union of two single-valued enums, collapsed
C10_Witness ==
    /\ op = "simplify_enum_schema"
    /\ IsEnumUnion(arg)
    /\ Len(arg.anyOf) = 2
    /\ arg.anyOf[1] = [enum |-> <<"x">>]
    /\ arg.anyOf[2] = [enum |-> <<"y">>]
    /\ ret = [enum |-> <<"x", "y">>]

\* whether pydantic takes value for the declared field name of a lock
DeclaredTakes(name, value) ==
    IF name = "uid"
    THEN value.t \in {"null"} \cup StrLike
    ELSE value.t \in {"null", "bool"}

\* whether an assignment lock.name = value is one the flavor accepts
AssignmentValid(cls, name, value) ==
    IF name \in DeclaredNames(cls)
    THEN DeclaredTakes(name, value)
    ELSE EntryShape(cls, value)

=============================================================================
